---- MODULE Spec2Model ----
(***************************************************************************)
(* async-stream-generator (src/index.js): StreamGenerators wraps an async  *)
(* iterator `g` in an object-mode Readable.  The adapter's own code is the *)
(* constructor check (isAsyncIterator), the constructor and _read.  The    *)
(* Readable it inherits from (push, read, the reading/ended flags, the     *)
(* buffer and its high-water mark, emit) is the host stream machinery; it  *)
(* is modelled here as far as _read and the consumer can observe it.       *)
(*                                                                         *)
(* JavaScript values are modelled as strings: "a" and "b" are ordinary     *)
(* items, "null" is the value null, "undefined" the value undefined.       *)
(***************************************************************************)
EXTENDS Naturals, Sequences, FiniteSets

\* Longest script of pull outcomes the wrapped sequence is given.
MaxLen == 3

\* The Readable's highWaterMark.  Node's object-mode default is 16; the model
\* scales it down so that a sequence of MaxLen items can fill the buffer.
HighWaterMark == 2

\* Cap on the number of next() calls when _read is also invoked directly,
\* outside the host machinery's discipline (SpecDirect only).
MaxCalls == 4

NULL == "null"
UNDEFINED == "undefined"

\* Values a pull may resolve with.
Values == {"a", "b", NULL, UNDEFINED}

\* What one call of g.next() does: return a promise that resolves with a
\* result r = {done, value}, return a promise that rejects with E, or throw
\* E synchronously.  done is "false" (exactly false), "true", "missing"
\* (no done property) or "other" (any other value, e.g. 0 or "no").
Outcomes ==
    [kind : {"resolve"}, done : {"false"}, value : Values]
      \cup [kind : {"resolve"}, done : {"true"}, value : {UNDEFINED}]
      \cup [kind : {"resolve"}, done : {"missing", "other"}, value : {"a"}]
      \cup [kind : {"reject", "throw"}, done : {"none"}, value : {"E"}]

\* A finished async generator answers every further next() with done: true.
Exhausted == [kind |-> "resolve", done |-> "true", value |-> UNDEFINED]

RECURSIVE SeqsUpTo(_, _)
SeqsUpTo(S, n) ==
    IF n = 0 THEN {<<>>}
    ELSE LET shorter == SeqsUpTo(S, n - 1)
         IN  shorter \cup {Append(q, x) : q \in {r \in shorter : Len(r) = n - 1}, x \in S}

Scripts == SeqsUpTo(Outcomes, MaxLen)

\* Candidate constructor arguments.  nullish: the value is null or undefined;
\* asyncIterator: typeof obj[Symbol.asyncIterator]; next: typeof obj.next.
Args ==
    { [name |-> "null",           nullish |-> TRUE,  asyncIterator |-> "undefined", next |-> "undefined"],
      [name |-> "undefined",      nullish |-> TRUE,  asyncIterator |-> "undefined", next |-> "undefined"],
      [name |-> "number",         nullish |-> FALSE, asyncIterator |-> "undefined", next |-> "undefined"],
      [name |-> "string",         nullish |-> FALSE, asyncIterator |-> "undefined", next |-> "undefined"],
      [name |-> "syncIterable",   nullish |-> FALSE, asyncIterator |-> "undefined", next |-> "undefined"],
      [name |-> "syncGenerator",  nullish |-> FALSE, asyncIterator |-> "undefined", next |-> "function"],
      [name |-> "notCallable",    nullish |-> FALSE, asyncIterator |-> "string",    next |-> "undefined"],
      [name |-> "asyncGenerator", nullish |-> FALSE, asyncIterator |-> "function",  next |-> "function"],
      [name |-> "asyncIterableOnly", nullish |-> FALSE, asyncIterator |-> "function", next |-> "undefined"] }

\* this._g before the constructor has run.
NoArg == [name |-> "unset", nullish |-> TRUE, asyncIterator |-> "undefined", next |-> "undefined"]

VARIABLES
    arg,            \* the value passed to the constructor
    script,         \* the outcomes of the successive next() calls on arg
    errorListener,  \* whether the consumer has subscribed to 'error'
    phase,          \* "new", "constructed", or "failed" (the constructor threw)
    g,              \* this._g
    calls,          \* number of this._g.next() calls made so far
    reads,          \* number of _read invocations so far
    pending,        \* call numbers of the pulls whose promise has not settled
    yielded,        \* values of the pulls that resolved with done === false
    reading,        \* Readable state.reading
    ended,          \* Readable state.ended (the end marker was pushed)
    endEmitted,     \* the consumer was sent 'end'
    flowing,        \* the consumer is consuming (not paused by backpressure)
    buffer,         \* Readable state.buffer
    delivered,      \* the 'data' items the consumer has observed
    lastPush,       \* what the latest this.push(...) returned ("none" before any)
    destroyed,      \* Readable state.destroyed
    orphaned,       \* the pulls that were outstanding when the stream was destroyed
    errors,         \* the 'error' notifications the consumer has observed
    thrown,         \* exceptions thrown to the caller of the constructor or of _read
    unhandled       \* rejections no handler took (unhandledRejection)

seqVars == <<arg, script, errorListener>>
adapterVars == <<phase, g, calls, reads, pending, yielded>>
streamVars == <<reading, ended, endEmitted, flowing, buffer, delivered, lastPush, destroyed, orphaned>>
faultVars == <<errors, thrown, unhandled>>
vars == <<seqVars, adapterVars, streamVars, faultVars>>

\* The outcome of the i-th next() call.
OutcomeOf(i) ==
    IF i <= Len(script) THEN script[i] ELSE Exhausted

----
\* isAsyncIterator with only the null check of line 5.
isAsyncIteratorNullCheckOnly(obj) ==
    ~obj.nullish

\* src/index.js:3-9
isAsyncIterator(obj) ==
    IF obj.nullish THEN FALSE ELSE obj.asyncIterator = "function"

Init ==
    /\ arg \in Args
    /\ script \in Scripts
    /\ errorListener \in BOOLEAN
    \* only a constructible argument with a next operation follows a script
    /\ (~(isAsyncIterator(arg) /\ arg.next = "function")) => script = <<>>
    /\ (~isAsyncIterator(arg)) => errorListener = FALSE
    /\ phase = "new"
    /\ g = NoArg
    /\ calls = 0
    /\ reads = 0
    /\ pending = <<>>
    /\ yielded = <<>>
    /\ reading = FALSE
    /\ ended = FALSE
    /\ endEmitted = FALSE
    /\ flowing = FALSE
    /\ buffer = <<>>
    /\ delivered = <<>>
    /\ lastPush = "none"
    /\ destroyed = FALSE
    /\ orphaned = <<>>
    /\ errors = <<>>
    /\ thrown = <<>>
    /\ unhandled = <<>>

----
\* The adapter (src/index.js)

\* The constructor binding the iterator obtained by the capability lookup
\* g[Symbol.asyncIterator](), which has a next operation, instead of g itself.
StreamGeneratorsLookup ==
    /\ phase = "new"
    /\ IF ~isAsyncIterator(arg)
       THEN /\ phase' = "failed"
            /\ thrown' = Append(thrown, [from |-> "constructor", error |-> "TypeError"])
            /\ UNCHANGED g
       ELSE /\ phase' = "constructed"
            /\ g' = [arg EXCEPT !.next = "function"]
            /\ UNCHANGED thrown
    /\ UNCHANGED <<seqVars, calls, reads, pending, yielded, streamVars, errors, unhandled>>

\* src/index.js:11-17.  The constructor: the TypeError leaves no object
\* behind; on success Readable.call initialises the stream state (already
\* in its initial values) and this._g is bound.  No next() call is made.
StreamGenerators ==
    /\ phase = "new"
    /\ IF ~isAsyncIterator(arg)
       THEN /\ phase' = "failed"
            /\ thrown' = Append(thrown, [from |-> "constructor", error |-> "TypeError"])
            /\ UNCHANGED g
       ELSE /\ phase' = "constructed"
            /\ g' = arg
            /\ UNCHANGED thrown
    /\ UNCHANGED <<seqVars, calls, reads, pending, yielded, streamVars, errors, unhandled>>

\* this._g.next() throws in the caller's stack: next is not callable, or the
\* sequence's next throws synchronously on this call.
NextThrows ==
    g.next # "function" \/ OutcomeOf(calls + 1).kind = "throw"

\* The error such a throw carries.
ThrownBy ==
    IF g.next # "function" THEN "TypeError" ELSE OutcomeOf(calls + 1).value

\* src/index.js:33, this.emit("error", e) inside the catch block.  With an
\* 'error' listener the notification is delivered and emit returns; with
\* none, EventEmitter.emit throws e, out of the catch block, to the caller
\* of _read.
emit(e) ==
    IF errorListener
    THEN /\ errors' = Append(errors, e)
         /\ UNCHANGED thrown
    ELSE /\ thrown' = Append(thrown, [from |-> "_read", error |-> e])
         /\ UNCHANGED errors

\* _read that calls this._g.next() twice per demand signal.
_readTwice ==
    /\ reads' = reads + 1
    /\ IF NextThrows
       THEN /\ calls' = IF g.next # "function" THEN calls ELSE calls + 1
            /\ emit(ThrownBy)
            /\ UNCHANGED pending
       ELSE /\ calls' = calls + 2
            /\ pending' = pending \o <<calls + 1, calls + 2>>
            /\ UNCHANGED <<errors, thrown>>

\* _read without the try/catch of lines 24 and 32: a synchronous throw of
\* next() goes to the caller and nothing is emitted.
_readNoCatch ==
    /\ reads' = reads + 1
    /\ IF NextThrows
       THEN /\ calls' = IF g.next # "function" THEN calls ELSE calls + 1
            /\ thrown' = Append(thrown, [from |-> "_read", error |-> ThrownBy])
            /\ UNCHANGED <<pending, errors>>
       ELSE /\ calls' = calls + 1
            /\ pending' = Append(pending, calls + 1)
            /\ UNCHANGED <<errors, thrown>>

\* _read that, having caught a synchronous throw and emitted it, calls
\* next() once more (a retry).
_readRetry ==
    /\ reads' = reads + 1
    /\ IF NextThrows
       THEN /\ emit(ThrownBy)
            /\ calls' = IF g.next # "function" THEN calls ELSE calls + 2
            /\ pending' = IF g.next # "function" THEN pending ELSE Append(pending, calls + 2)
       ELSE /\ calls' = calls + 1
            /\ pending' = Append(pending, calls + 1)
            /\ UNCHANGED <<errors, thrown>>

\* _read that honours the value the previous push returned: no pull after a
\* push that returned false.
_readThrottled ==
    /\ reads' = reads + 1
    /\ IF lastPush = "false"
       THEN UNCHANGED <<calls, pending, errors, thrown>>
       ELSE IF NextThrows
       THEN /\ calls' = IF g.next # "function" THEN calls ELSE calls + 1
            /\ emit(ThrownBy)
            /\ UNCHANGED pending
       ELSE /\ calls' = calls + 1
            /\ pending' = Append(pending, calls + 1)
            /\ UNCHANGED <<errors, thrown>>

\* src/index.js:23-35, the synchronous part of _read: one call of
\* this._g.next(), whose promise gets a fulfilment handler and no rejection
\* handler; a synchronous throw is caught and emitted.
_read ==
    /\ reads' = reads + 1
    /\ IF NextThrows
       THEN /\ calls' = IF g.next # "function" THEN calls ELSE calls + 1
            /\ emit(ThrownBy)
            /\ UNCHANGED pending
       ELSE /\ calls' = calls + 1
            /\ pending' = Append(pending, calls + 1)
            /\ UNCHANGED <<errors, thrown>>

\* What push returns once the chunk is in: whether more may be pushed.
PushMore(len) ==
    IF len < HighWaterMark \/ len = 0 THEN "true" ELSE "false"

\* Readable.prototype.push as _read's handler calls it (lines 27 and 29):
\* null is the end marker; a chunk pushed after the end marker is an error
\* ("stream.push() after EOF"), raised inside the promise handler; a chunk
\* pushed to a destroyed stream is dropped; any other chunk, undefined
\* included (object mode), clears state.reading and is handed to a flowing
\* consumer with an empty buffer, or else buffered.  The value push returns
\* is recorded; lines 27 and 29 discard it.
push(chunk) ==
    IF chunk = NULL
    THEN /\ reading' = FALSE
         /\ ended' = TRUE
         /\ lastPush' = "false"
         /\ UNCHANGED <<buffer, delivered, errors, unhandled>>
    ELSE IF ended
    THEN /\ IF errorListener
            THEN errors' = Append(errors, "ERR_STREAM_PUSH_AFTER_EOF") /\ UNCHANGED unhandled
            ELSE unhandled' = Append(unhandled, "ERR_STREAM_PUSH_AFTER_EOF") /\ UNCHANGED errors
         /\ lastPush' = "false"
         /\ UNCHANGED <<reading, ended, buffer, delivered>>
    ELSE IF destroyed
    THEN /\ lastPush' = "false"
         /\ UNCHANGED <<reading, ended, buffer, delivered, errors, unhandled>>
    ELSE /\ reading' = FALSE
         /\ IF flowing /\ buffer = <<>>
            THEN /\ delivered' = Append(delivered, chunk)
                 /\ lastPush' = PushMore(0)
                 /\ UNCHANGED buffer
            ELSE /\ buffer' = Append(buffer, chunk)
                 /\ lastPush' = PushMore(Len(buffer) + 1)
                 /\ UNCHANGED delivered
         /\ UNCHANGED <<ended, errors, unhandled>>

\* OnFulfilled without the test of line 26: every result is pushed as an item.
OnFulfilledNoDoneCheck(r) ==
    /\ pending' = Tail(pending)
    /\ UNCHANGED <<calls, reads>>
    /\ push(r.value)
    /\ IF r.done = "false"
       THEN yielded' = Append(yielded, r.value)
       ELSE UNCHANGED yielded

\* OnFulfilled that, having pushed an item, pulls the next one itself rather
\* than waiting for the next demand signal.
OnFulfilledEager(r) ==
    /\ UNCHANGED reads
    /\ IF r.done = "false"
       THEN /\ push(r.value)
            /\ yielded' = Append(yielded, r.value)
            /\ calls' = calls + 1
            /\ pending' = Append(Tail(pending), calls + 1)
       ELSE /\ push(NULL)
            /\ pending' = Tail(pending)
            /\ UNCHANGED <<yielded, calls>>

\* OnFulfilled testing !r.done instead of false === r.done: a result with no
\* done property counts as an item.
OnFulfilledFalsy(r) ==
    /\ pending' = Tail(pending)
    /\ UNCHANGED <<calls, reads>>
    /\ IF r.done \in {"false", "missing"}
       THEN /\ push(r.value)
            /\ yielded' = Append(yielded, r.value)
       ELSE /\ push(NULL)
            /\ UNCHANGED yielded

\* src/index.js:25-31, the fulfilment handler r => {...} of the oldest
\* outstanding pull: an item only if done is exactly false.  The handler
\* makes no next() call of its own.
OnFulfilled(r) ==
    /\ pending' = Tail(pending)
    /\ UNCHANGED <<calls, reads>>
    /\ IF r.done = "false"
       THEN /\ push(r.value)
            /\ yielded' = Append(yielded, r.value)
       ELSE /\ push(NULL)
            /\ UNCHANGED yielded

\* The oldest outstanding pull settles.  Fulfilled: the handler of line 25
\* runs.  Rejected: .then() was given no rejection handler (lines 25-31) and
\* the try/catch of lines 24 and 32 has long returned, so nothing takes the
\* rejection and the stream is not touched.
Settle ==
    /\ pending # <<>>
    /\ LET r == OutcomeOf(Head(pending))
       IN  IF r.kind = "reject"
           THEN /\ pending' = Tail(pending)
                /\ unhandled' = Append(unhandled, r.value)
                /\ UNCHANGED <<calls, reads, yielded, reading, ended, buffer, delivered, lastPush, errors>>
           ELSE OnFulfilled(r)
    /\ UNCHANGED <<seqVars, phase, g, endEmitted, flowing, destroyed, orphaned, thrown>>

----
\* The host stream machinery and the consumer

\* Readable.prototype.read(n) decides to call _read: not already reading,
\* not ended, and fewer than highWaterMark items would remain buffered.
DoRead(n) ==
    ~reading /\ ~ended /\ Len(buffer) - n < HighWaterMark

\* read(0), as maybeReadMore and resume issue it: a demand signal and no
\* consumption.
Read0 ==
    /\ phase = "constructed"
    /\ DoRead(0)
    /\ reading' = TRUE
    /\ _read
    /\ UNCHANGED <<seqVars, phase, g, yielded, ended, endEmitted, flowing, buffer,
                   delivered, lastPush, destroyed, orphaned, unhandled>>

\* read() by the consumer (the flow loop, or an explicit call) with an item
\* buffered: a demand signal if DoRead, then the head of the buffer is
\* handed over as 'data'.  An exception out of _read aborts the call before
\* anything is handed over.
ReadOne ==
    /\ phase = "constructed"
    /\ buffer # <<>>
    /\ IF DoRead(1)
       THEN /\ reading' = TRUE
            /\ _read
       ELSE UNCHANGED <<reading, reads, calls, pending, errors, thrown>>
    /\ IF DoRead(1) /\ NextThrows /\ ~errorListener
       THEN UNCHANGED <<buffer, delivered>>
       ELSE /\ delivered' = Append(delivered, Head(buffer))
            /\ buffer' = Tail(buffer)
    /\ UNCHANGED <<seqVars, phase, g, yielded, ended, endEmitted, flowing, lastPush,
                   destroyed, orphaned, unhandled>>

\* endReadable: the end marker was pushed and the buffer is drained, so the
\* consumer is sent 'end', once.  On a destroyed stream this is what a
\* Readable whose endReadable does not look at the destroyed state does for
\* a flowing consumer (the flow loop's read() finds the stream ended); a
\* Readable that suppresses 'end' after 'close' never takes this step.
EmitEnd ==
    /\ phase = "constructed"
    /\ ended
    /\ buffer = <<>>
    /\ ~endEmitted
    /\ destroyed => flowing
    /\ endEmitted' = TRUE
    /\ UNCHANGED <<seqVars, adapterVars, reading, ended, flowing, buffer, delivered,
                   lastPush, destroyed, orphaned, faultVars>>

\* The consumer starts or resumes consuming (on('data'), pipe, 'drain').
Resume ==
    /\ phase = "constructed"
    /\ ~flowing
    /\ flowing' = TRUE
    /\ UNCHANGED <<seqVars, adapterVars, reading, ended, endEmitted, buffer, delivered,
                   lastPush, destroyed, orphaned, faultVars>>

\* The consumer stops consuming (a piped sink signals backpressure).
Pause ==
    /\ phase = "constructed"
    /\ flowing
    /\ flowing' = FALSE
    /\ UNCHANGED <<seqVars, adapterVars, reading, ended, endEmitted, buffer, delivered,
                   lastPush, destroyed, orphaned, faultVars>>

\* The consumer destroys the stream (stream.destroy(), or a pipeline tearing
\* down).  The adapter defines no _destroy and never calls the sequence's
\* return(): the outstanding pulls stay outstanding.
Destroy ==
    /\ phase = "constructed"
    /\ ~destroyed
    /\ destroyed' = TRUE
    /\ orphaned' = pending
    /\ UNCHANGED <<seqVars, adapterVars, reading, ended, endEmitted, flowing, buffer,
                   delivered, lastPush, faultVars>>

\* A caller other than the host machinery invokes _read directly, whatever
\* the stream's state.
DirectRead ==
    /\ phase = "constructed"
    /\ calls < MaxCalls
    /\ reads < MaxCalls
    /\ _read
    /\ UNCHANGED <<seqVars, phase, g, yielded, streamVars, unhandled>>

Next ==
    \/ StreamGenerators
    \/ Read0
    \/ ReadOne
    \/ Settle
    \/ EmitEnd
    \/ Resume
    \/ Pause
    \/ Destroy

\* The adapter driven by the host stream machinery only.
Spec == Init /\ [][Next]_vars

NextDirect ==
    \/ Next
    \/ DirectRead

\* The adapter when _read may also be invoked directly.
SpecDirect == Init /\ [][NextDirect]_vars

----
\* Properties

IsPrefix(p, q) ==
    Len(p) <= Len(q) /\ SubSeq(q, 1, Len(p)) = p

\* The items emitted to the output stream so far, in emission order: those
\* the consumer has observed, then those still buffered.
Emitted == delivered \o buffer

\* The script is a finite sequence of items that never fails: every pull
\* within it resolves with done === false.
ItemsOnly ==
    \A i \in 1..Len(script) : script[i].kind = "resolve" /\ script[i].done = "false"

ItemsOf(q) == [i \in 1..Len(q) |-> q[i].value]

\* The call numbers of the pulls that have settled.
Settled == {i \in 1..calls : OutcomeOf(i).kind # "throw" /\ \A j \in 1..Len(pending) : pending[j] # i}

\* C1: under the host machinery's demand discipline, the items emitted to
\* the output stream are always a prefix of the items the wrapped sequence
\* has yielded so far: nothing reordered, nothing emitted twice, nothing
\* emitted that was not yielded.
C1_EmittedPrefixOfYielded ==
    IsPrefix(Emitted, yielded)

\* C1 witness: two different items reached the consumer and a third is buffered.
C1_Witness ==
    /\ Len(delivered) = 2
    /\ delivered[1] # delivered[2]
    /\ buffer # <<>>

\* C2 (as claimed): once the consumer has been sent 'end' for a finite,
\* never-failing sequence, it has observed all n items of the sequence.
C2_AllItemsThenEnd ==
    (ItemsOnly /\ endEmitted) => delivered = ItemsOf(script)

\* C3 (as claimed): once a pull has rejected with E, the consumer (listening
\* for errors) has an error notification carrying E, after exactly the items
\* yielded before.
C3_RejectionNotified ==
    (errorListener /\ \E i \in Settled : OutcomeOf(i).kind = "reject")
        => (errors = <<"E">> /\ Emitted = yielded)

\* C4 (as claimed): a stream whose sequence has stopped (completed, or a
\* pull failed by throwing or rejecting) and has no pull outstanding has been
\* given the end marker or an error notification.
C4_NoSilentTruncation ==
    (/\ errorListener
     /\ pending = <<>>
     /\ \E i \in 1..calls : ~(OutcomeOf(i).kind = "resolve" /\ OutcomeOf(i).done = "false"))
        => (ended \/ errors # <<>>)

\* The arguments of Args that lack the async-iterable capability: null,
\* undefined, non-object values, objects with synchronous iteration only, and
\* an object whose Symbol.asyncIterator is not callable.
NotAsyncIterable ==
    {"null", "undefined", "number", "string", "syncIterable", "syncGenerator", "notCallable"}

\* C5: constructing with an argument that lacks a callable
\* Symbol.asyncIterator throws a TypeError synchronously, leaves no adapter
\* and pulls nothing; constructing with one that has it succeeds, binds it,
\* and the construction step itself makes no next() call.
C5_ConstructionChecked ==
    /\ [](phase # "new" =>
            IF arg.name \in NotAsyncIterable
            THEN /\ phase = "failed"
                 /\ thrown = <<[from |-> "constructor", error |-> "TypeError"]>>
                 /\ g = NoArg
                 /\ calls = 0 /\ reads = 0 /\ pending = <<>>
            ELSE /\ phase = "constructed"
                 /\ g = arg
                 /\ \A i \in 1..Len(thrown) : thrown[i].from # "constructor")
    /\ [][phase = "new" => (calls' = 0 /\ reads' = 0 /\ pending' = <<>>)]_vars

\* C5 witness: construction with a synchronous-iterable object has failed.
C5_Witness ==
    /\ arg.name = "syncIterable"
    /\ phase = "failed"
    /\ thrown # <<>>

\* C6: driven by the host machinery, at most one pull is outstanding.
C6_AtMostOnePull ==
    Len(pending) <= 1

\* C6 witness: a third pull is outstanding after two earlier ones settled.
C6_Witness ==
    /\ calls = 3
    /\ Len(pending) = 1
    /\ Len(yielded) = 2

\* C7 (as claimed): whenever a pull resolves with done === false and value V,
\* exactly one item equal to V is emitted and the stream does not end or
\* change otherwise.
C7_ItemPassesThrough ==
    [][(/\ pending # <<>>
        /\ pending' = Tail(pending)
        /\ OutcomeOf(Head(pending)).kind = "resolve"
        /\ OutcomeOf(Head(pending)).done = "false")
        => (/\ delivered' \o buffer' = Append(Emitted, OutcomeOf(Head(pending)).value)
            /\ ended' = ended
            /\ errors' = errors)]_vars

\* C8 (as claimed): once the end marker has been emitted, no step, a further
\* _read invocation included, calls next again, emits an item or undoes
\* the end.
C8_EndedIsTerminal ==
    [][(ended /\ endEmitted)
        => (/\ calls' = calls
            /\ delivered' = delivered
            /\ buffer' = buffer
            /\ ended' /\ endEmitted')]_vars

\* C9: the items pulled from the sequence and not yet consumed (buffered, or
\* in a pull still outstanding) never exceed the high-water mark; so no pull
\* is outstanding while the buffer is full.
C9_BufferBounded ==
    Len(buffer) + Len(pending) <= HighWaterMark

\* C9 witness: the consumer is paused, the buffer is full, the sequence has
\* more items to give, and no pull is outstanding.
C9_Witness ==
    /\ ~flowing
    /\ Len(buffer) = HighWaterMark
    /\ pending = <<>>
    /\ ~ended
    /\ ItemsOnly
    /\ calls < Len(script)

\* Some next() call made so far threw synchronously.
SyncThrown ==
    \E i \in 1..calls : OutcomeOf(i).kind = "throw"

C11_ErroredIsTerminal ==
    /\ [](errors # <<>> => (~ended /\ ~endEmitted))
    /\ [][errors # <<>>
            => (/\ calls' = calls
                /\ pending' = pending
                /\ Emitted' = Emitted
                /\ errors' = errors)]_vars

\* C11 witness: the error was notified after an item had been emitted, and
\* the consumer has since drained the buffer.
C11_Witness ==
    /\ errors = <<"E">>
    /\ Len(delivered) = 2
    /\ calls = 3
    /\ buffer = <<>>

\* C12: for a wrapped sequence (an argument with a next operation), the
\* number of next() calls always equals the number of _read invocations:
\* every demand signal makes exactly one pull, whatever the previous push
\* returned, and no pull is made without a demand signal.
C12_OnePullPerDemand ==
    (phase = "constructed" /\ g.next = "function") => calls = reads

\* C12 witness: the latest push returned false (the buffer had reached the
\* high-water mark) and the demand signal that followed has its pull
\* outstanding.
C12_Witness ==
    /\ lastPush = "false"
    /\ ~ended /\ ~destroyed
    /\ pending = <<3>>
    /\ reads = 3

\* C13 (as claimed): destroying the stream leaves the outstanding pulls
\* outstanding, and once the stream is destroyed with a pull in flight no
\* item is emitted any more and the consumer is not sent 'end'.
C13_OrphanedPullDiscarded ==
    /\ [][(~destroyed /\ destroyed') => pending' = pending]_vars
    /\ [][(destroyed /\ orphaned # <<>>)
            => (Emitted' = Emitted /\ endEmitted' = endEmitted)]_vars

\* The step is the fulfilment of the oldest outstanding pull.
Fulfils ==
    /\ pending # <<>>
    /\ pending' = Tail(pending)
    /\ OutcomeOf(Head(pending)).kind = "resolve"

\* C14: a fulfilled pull emits an item only if its done flag is exactly
\* false; with done true, missing or anything else, nothing is emitted,
\* whatever the result's value, and the end marker is pushed.
C14_OnlyDoneFalseIsItem ==
    [][Fulfils =>
        LET r == OutcomeOf(Head(pending))
        IN  IF r.done = "false"
            THEN (r.value # NULL /\ ~destroyed /\ ~ended)
                    => (Emitted' = Append(Emitted, r.value) /\ ended' = ended)
            ELSE Emitted' = Emitted /\ ended']_vars

\* C14 witness: the second pull resolved with a value and no done property;
\* the stream has ended with only the first item emitted.
C14_Witness ==
    /\ Len(script) >= 2
    /\ script[1].kind = "resolve" /\ script[1].done = "false" /\ script[1].value = "b"
    /\ script[2].done = "missing"
    /\ calls = 2
    /\ pending = <<>>
    /\ ended
    /\ Emitted = <<"b">>

====
